---------------------------- MODULE Spec2Model ----------------------------
(***************************************************************************)
(* Round/spin state machine of the roulette backend.                       *)
(*                                                                         *)
(* The coordinator is src/src/services/GameStateManager.ts, the shared     *)
(* queue and the admin commands are the Telegram bot service               *)
(* (src/src/bot/TelegramBotService.ts), the HTTP routes are the game       *)
(* server (src/unnamed/part_001).  The runtime is a single-threaded event  *)
(* loop: a handler runs to its first await of a store call, where it is    *)
(* suspended, and is resumed by a later step.  Each handler is therefore   *)
(* one action up to its await and one action for its resumption.           *)
(*                                                                         *)
(* Time is abstracted: arbitrary time may pass between two handlers, so a   *)
(* comparison of Date.now() with a recorded instant is an input of the     *)
(* handler that makes it.  A timeout scheduled by setTimeout is a pending  *)
(* timer; timers of equal duration fire in the order scheduled.            *)
(***************************************************************************)
EXTENDS Integers, Sequences, FiniteSets, TLC

\* ------------------------------------------------------------------ bounds
\* Numbers used as roulette inputs (0 is green, 5 is red and odd) and the
\* inputs isValidRouletteNumber rejects.
SpinInputs == {0, 5}
InvalidInputs == {37}

\* Cap on the queue length (the coordinator itself does not bound it).
MaxQueueLen == 3
\* Pending timeouts of one kind (setTimeout is never cancelled).
MaxTimers == 2
\* Handlers suspended at a store call at the same time.
MaxPending == 1
\* Rows the result store holds.
MaxResults == 1

\* Bot handlers suspended at the store call of an enqueue at the same time.
MaxAdders == 2
\* CONFIG.MAX_SPIN_QUEUE_SIZE, scaled down from 100.
MAX_SPIN_QUEUE_SIZE == 2

\* Rows the audit table holds.
MaxAudit == 2

\* maxRetries of storeSpinResult.
maxRetries == 3

\* ------------------------------------------------------------ pure helpers
None == <<>>
Some(n) == <<n>>

RED_NUMBERS == {1, 3, 5, 7, 9, 12, 14, 16, 18, 19, 21, 23, 25, 27, 30, 32, 34, 36}
BLACK_NUMBERS == {2, 4, 6, 8, 10, 11, 13, 15, 17, 20, 22, 24, 26, 28, 29, 31, 33, 35}

isValidRouletteNumber(n) == n \in Int /\ n >= 0 /\ n <= 36

getRouletteColor(n) ==
    IF ~isValidRouletteNumber(n) THEN "throw"
    ELSE IF n \in RED_NUMBERS THEN "Red"
    ELSE IF n \in BLACK_NUMBERS THEN "Black"
    ELSE "Green"

\* A faulty parity that forgets the zero case (C15 must reject it).
getRouletteParity_ZeroEven(n) ==
    IF ~isValidRouletteNumber(n) THEN "throw"
    ELSE IF n % 2 = 0 THEN "Even" ELSE "Odd"

getRouletteParity(n) ==
    IF ~isValidRouletteNumber(n) THEN "throw"
    ELSE IF n = 0 THEN "None"
    ELSE IF n % 2 = 0 THEN "Even" ELSE "Odd"

RemoveAt(s, i) == SubSeq(s, 1, i - 1) \o SubSeq(s, i + 1, Len(s))

\* ------------------------------------------------------------------- state
VARIABLES
    currentState,           \* GameState: "running" | "paused"
    roundActive,
    isSpinning,
    currentRoundStartTime,  \* "null" | "set"
    currentSpinIndex,       \* None, or Some(n)
    lastFrontendActivity,   \* "null" | "set"
    spinQueue,              \* the shared queue of the bot service
    configured,             \* SupabaseService.isConfigured(), fixed per run
    spinResults,            \* rows of roulette_spin_results, oldest first
    roundTimers,            \* number of pending setTimeout(endRound)
    spinTimers,             \* number of pending setTimeout(endSpin)
    endRoundFrames,         \* endRound calls suspended at logSpinProcessing
    endSpinFrames,          \* endSpin calls suspended in storeSpinResult
    addSpinFrames,          \* size-checked enqueues suspended at their store call
    auditLog,               \* actions of the rows of bot_audit_logs, oldest first
    operationLock,          \* the documented coordinator's operationLock
    cachedLastSpinResult,   \* that coordinator's cache: None, or Some(row)
    sampleSpinFrames        \* create-sample-spins calls: index of the next sample

game == <<currentState, roundActive, isSpinning, currentRoundStartTime,
          currentSpinIndex, lastFrontendActivity>>
store == <<configured, spinResults, auditLog>>
timers == <<roundTimers, spinTimers>>
frames == <<endRoundFrames, endSpinFrames, addSpinFrames, sampleSpinFrames>>
vars == <<game, spinQueue, store, timers, frames, operationLock,
          cachedLastSpinResult>>

Init ==
    /\ currentState = "running"
    /\ roundActive = FALSE
    /\ isSpinning = FALSE
    /\ currentRoundStartTime = "null"
    /\ currentSpinIndex = None
    /\ lastFrontendActivity = "null"
    /\ spinQueue = <<>>
    /\ configured \in BOOLEAN
    /\ spinResults = <<>>
    /\ roundTimers = 0
    /\ spinTimers = 0
    /\ endRoundFrames = <<>>
    /\ endSpinFrames = <<>>
    /\ addSpinFrames = <<>>
    /\ auditLog = <<>>
    /\ operationLock = FALSE
    /\ cachedLastSpinResult = None
    /\ sampleSpinFrames = <<>>

\* A timer callback or an inbound request is a new macrotask.  With the store
\* unconfigured every await resolves in the microtask queue, so a suspended
\* handler finishes before the next macrotask starts.
Macrotask == configured \/ Len(endRoundFrames) + Len(endSpinFrames) = 0

\* The program state as one record, so that a method called from inside another
\* handler acts on the state its caller has produced so far.
Cur ==
    [currentState |-> currentState, roundActive |-> roundActive,
     isSpinning |-> isSpinning, currentRoundStartTime |-> currentRoundStartTime,
     currentSpinIndex |-> currentSpinIndex,
     lastFrontendActivity |-> lastFrontendActivity, spinQueue |-> spinQueue,
     configured |-> configured, spinResults |-> spinResults,
     roundTimers |-> roundTimers, spinTimers |-> spinTimers,
     endRoundFrames |-> endRoundFrames,
     endSpinFrames |-> endSpinFrames,
     addSpinFrames |-> addSpinFrames,
     auditLog |-> auditLog,
     operationLock |-> operationLock,
     cachedLastSpinResult |-> cachedLastSpinResult,
     sampleSpinFrames |-> sampleSpinFrames]

WithinBounds(s) ==
    /\ Len(s.spinQueue) <= MaxQueueLen
    /\ s.roundTimers <= MaxTimers
    /\ s.spinTimers <= MaxTimers
    /\ Len(s.endRoundFrames) + Len(s.endSpinFrames) <= MaxPending
    /\ Len(s.spinResults) <= MaxResults
    /\ Len(s.addSpinFrames) <= MaxAdders
    /\ Len(s.auditLog) <= MaxAudit
    /\ Len(s.sampleSpinFrames) <= MaxPending

\* The step's effect: the program is left in state s.
Commit(s) ==
    /\ WithinBounds(s)
    /\ currentState' = s.currentState
    /\ roundActive' = s.roundActive
    /\ isSpinning' = s.isSpinning
    /\ currentRoundStartTime' = s.currentRoundStartTime
    /\ currentSpinIndex' = s.currentSpinIndex
    /\ lastFrontendActivity' = s.lastFrontendActivity
    /\ spinQueue' = s.spinQueue
    /\ configured' = s.configured
    /\ spinResults' = s.spinResults
    /\ roundTimers' = s.roundTimers
    /\ spinTimers' = s.spinTimers
    /\ endRoundFrames' = s.endRoundFrames
    /\ endSpinFrames' = s.endSpinFrames
    /\ addSpinFrames' = s.addSpinFrames
    /\ auditLog' = s.auditLog
    /\ operationLock' = s.operationLock
    /\ cachedLastSpinResult' = s.cachedLastSpinResult
    /\ sampleSpinFrames' = s.sampleSpinFrames

\* --------------------------------------------------- GameStateManager methods
isRunning(s) == s.currentState = "running"

\* The value resume() returns.
resumeSucceeds(s) == s.currentState # "running"

resume(s) == IF s.currentState # "running" THEN [s EXCEPT !.currentState = "running"] ELSE s

\* The value pause() returns.
pauseSucceeds(s) == s.currentState = "running"

\* A faulty pause that also ends the round in progress (C20 must reject it).
pause_EndsRound(s) ==
    IF s.currentState = "running"
    THEN [s EXCEPT !.currentState = "paused", !.roundActive = FALSE]
    ELSE s

pause(s) == IF s.currentState = "running" THEN [s EXCEPT !.currentState = "paused"] ELSE s

\* A faulty reset that forgets the queue (C5 must reject it).
reset_KeepsQueue(s) ==
    [s EXCEPT !.currentState = "running",
              !.roundActive = FALSE,
              !.isSpinning = FALSE,
              !.currentRoundStartTime = "null",
              !.currentSpinIndex = None,
              !.lastFrontendActivity = "null"]

reset(s) ==
    [s EXCEPT !.currentState = "running",
              !.roundActive = FALSE,
              !.isSpinning = FALSE,
              !.currentRoundStartTime = "null",
              !.currentSpinIndex = None,
              !.lastFrontendActivity = "null",
              !.spinQueue = <<>>]

startNewRound(s) ==
    IF ~isRunning(s) \/ s.roundActive THEN s
    ELSE [s EXCEPT !.roundActive = TRUE,
                   !.isSpinning = FALSE,
                   !.currentRoundStartTime = "set",
                   !.currentSpinIndex = None,
                   !.roundTimers = @ + 1]

\* What a call of endRound does before it returns or is suspended.
endRoundOutcome(s) ==
    IF ~s.roundActive THEN "rejected"
    ELSE IF s.spinQueue = <<>> THEN "idle"
    ELSE "suspended"

\* A faulty endRound that commits the newest queued number (C3 must reject it).
endRound_TakesLast(s) ==
    IF ~s.roundActive THEN s
    ELSE IF s.spinQueue = <<>> THEN
        [s EXCEPT !.roundActive = FALSE, !.isSpinning = FALSE, !.currentSpinIndex = None]
    ELSE
        [s EXCEPT !.spinQueue = <<>>,
                  !.currentSpinIndex = Some(s.spinQueue[Len(s.spinQueue)]),
                  !.endRoundFrames = Append(@, [spins |-> s.spinQueue])]

\* A faulty endRound that starts a spin although nothing is queued (C8 must
\* reject it).
endRound_IdleSpins(s) ==
    IF ~s.roundActive THEN s
    ELSE IF s.spinQueue = <<>> THEN
        [s EXCEPT !.roundActive = FALSE, !.isSpinning = TRUE, !.spinTimers = @ + 1]
    ELSE
        [s EXCEPT !.spinQueue = <<>>,
                  !.currentSpinIndex = Some(Head(s.spinQueue)),
                  !.endRoundFrames = Append(@, [spins |-> s.spinQueue])]

\* A faulty endRound without the roundActive guard (C9 must reject it).
endRound_NoGuard(s) ==
    IF s.spinQueue = <<>> THEN
        [s EXCEPT !.roundActive = FALSE, !.isSpinning = FALSE, !.currentSpinIndex = None]
    ELSE
        [s EXCEPT !.spinQueue = <<>>,
                  !.currentSpinIndex = Some(Head(s.spinQueue)),
                  !.endRoundFrames = Append(@, [spins |-> s.spinQueue])]

\* endRound up to its await of logSpinProcessing (or to its return).
endRound(s) ==
    IF ~s.roundActive THEN s
    ELSE IF s.spinQueue = <<>> THEN
        [s EXCEPT !.roundActive = FALSE,
                  !.isSpinning = FALSE,
                  !.currentSpinIndex = None]
    ELSE
        [s EXCEPT !.spinQueue = <<>>,
                  !.currentSpinIndex = Some(Head(s.spinQueue)),
                  !.endRoundFrames = Append(@, [spins |-> s.spinQueue])]

\* A faulty resumption that starts the spin without ending the round (C1 must
\* reject it).
endRoundResume_KeepsRound(s, i) ==
    LET spins == s.endRoundFrames[i].spins
    IN [s EXCEPT !.spinQueue = IF Len(spins) > 1 THEN Tail(spins) \o @ ELSE @,
                 !.isSpinning = TRUE,
                 !.spinTimers = @ + 1,
                 !.endRoundFrames = RemoveAt(@, i)]

\* endRound from the return of logSpinProcessing to its end (frame i).
endRoundResume(s, i) ==
    LET spins == s.endRoundFrames[i].spins
    IN [s EXCEPT !.spinQueue = IF Len(spins) > 1 THEN Tail(spins) \o @ ELSE @,
                 !.isSpinning = TRUE,
                 !.roundActive = FALSE,
                 !.spinTimers = @ + 1,
                 !.endRoundFrames = RemoveAt(@, i)]

endSpinOutcome(s) ==
    IF ~s.isSpinning THEN "rejected"
    ELSE IF s.currentSpinIndex # None THEN "suspended"
    ELSE "idle"

\* endSpin up to its await of storeSpinResult (or to its return).
endSpin(s) ==
    IF ~s.isSpinning THEN s
    ELSE IF s.currentSpinIndex # None THEN
        [s EXCEPT !.endSpinFrames = Append(@, [spinNumber |-> s.currentSpinIndex[1]])]
    ELSE [s EXCEPT !.isSpinning = FALSE, !.currentSpinIndex = None]

\* A faulty end of spin that starts the next round by itself (C18 must reject it).
endSpinFinish_AutoRestart(s, i) ==
    startNewRound([s EXCEPT !.isSpinning = FALSE,
                            !.currentSpinIndex = None,
                            !.endSpinFrames = RemoveAt(@, i)])

\* endSpin after storeSpinResult has returned or thrown (frame i).
endSpinFinish(s, i) ==
    [s EXCEPT !.isSpinning = FALSE,
              !.currentSpinIndex = None,
              !.endSpinFrames = RemoveAt(@, i)]

\* storeSpinResult of frame i with the store configured: `fails` attempts fail
\* before one succeeds; after maxRetries failures it gives up and throws.
storeSpinResult(s, i, fails) ==
    LET n == s.endSpinFrames[i].spinNumber
    IN IF fails < maxRetries
       THEN [s EXCEPT !.spinResults = Append(@, [number |-> n,
                                                 color |-> getRouletteColor(n),
                                                 parity |-> getRouletteParity(n),
                                                 is_deleted |-> FALSE])]
       ELSE s

\* The instants at which getGameStateResponse can run: before or after the
\* round's duration has elapsed.  The timeout of the latest round is due when
\* that duration has elapsed, those of earlier rounds before.
Elapsed(s) ==
    IF s.roundTimers = 0 THEN {TRUE}
    ELSE IF s.roundTimers = 1 THEN BOOLEAN
    ELSE {FALSE}

\* elapsed: timeElapsed >= this.roundDuration.
getGameStateResponse(s, elapsed) ==
    IF s.roundActive /\ s.currentRoundStartTime # "null" /\ elapsed
    THEN endRound(s)
    ELSE s

\* The response object built from the state the expiry check has left.
Snapshot(s) ==
    [roundActive |-> s.roundActive,
     isSpinning |-> s.isSpinning,
     spinIndex |-> IF s.currentSpinIndex = None \/ s.currentSpinIndex = Some(0)
                   THEN None ELSE s.currentSpinIndex,
     roundStartTime |-> s.currentRoundStartTime]

recordFrontendActivity(s) == [s EXCEPT !.lastFrontendActivity = "set"]

\* timedOut: timeSinceLastActivity > CONFIG.FRONTEND_ACTIVITY_TIMEOUT.
isFrontendInactive(s, timedOut) == s.lastFrontendActivity # "null" /\ timedOut

checkActivity(s, timedOut) ==
    IF isFrontendInactive(s, timedOut) /\ (s.roundActive \/ s.isSpinning) THEN
        LET a == IF s.isSpinning
                 THEN [s EXCEPT !.isSpinning = FALSE, !.currentSpinIndex = None]
                 ELSE s
        IN IF a.roundActive
           THEN [a EXCEPT !.roundActive = FALSE, !.currentRoundStartTime = "null"]
           ELSE a
    ELSE s

triggerRoundEnd(s) ==
    IF ~s.roundActive THEN s ELSE endRound(s)

triggerManualSpinOutcome(s, n) ==
    IF ~isValidRouletteNumber(n) THEN "invalid"
    ELSE IF s.isSpinning THEN "spinning"
    ELSE IF s.roundActive THEN "suspended"
    ELSE "queued"

\* A faulty triggerManualSpin that queues n behind the others (C6 must reject it).
triggerManualSpin_Appends(s, n) ==
    IF ~isValidRouletteNumber(n) \/ s.isSpinning THEN s
    ELSE LET a == [s EXCEPT !.spinQueue = Append(@, n)]
         IN IF a.roundActive THEN endRound(a) ELSE a

\* A faulty triggerManualSpin that starts a round when idle (C7 must reject it).
triggerManualSpin_StartsRound(s, n) ==
    IF ~isValidRouletteNumber(n) \/ s.isSpinning THEN s
    ELSE LET a == [s EXCEPT !.spinQueue = <<n>> \o @]
         IN IF a.roundActive THEN endRound(a) ELSE startNewRound(a)

\* A faulty triggerManualSpin without the isSpinning guard (C19 must reject it).
triggerManualSpin_IgnoresSpin(s, n) ==
    IF ~isValidRouletteNumber(n) THEN s
    ELSE LET a == [s EXCEPT !.spinQueue = <<n>> \o @]
         IN IF a.roundActive THEN endRound(a) ELSE a

triggerManualSpin(s, n) ==
    IF ~isValidRouletteNumber(n) \/ s.isSpinning THEN s
    ELSE LET a == [s EXCEPT !.spinQueue = <<n>> \o @]
         IN IF a.roundActive
            THEN endRound(a)
            ELSE a

\* ------------------------------------------------------ bot service handlers
\* A faulty handler that queues n without validating it (C33 must reject it).
addSpin_NoValidation(s, n, elapsed) ==
    LET a == getGameStateResponse([s EXCEPT !.spinQueue = Append(@, n)], elapsed)
        idle == ~Snapshot(a).roundActive /\ ~Snapshot(a).isSpinning /\ isRunning(a)
    IN IF idle THEN startNewRound(a) ELSE a

\* The handler of the admin's "spin: n" message.
addSpin(s, n, elapsed) ==
    IF ~isValidRouletteNumber(n) THEN s
    ELSE LET a == getGameStateResponse([s EXCEPT !.spinQueue = Append(@, n)], elapsed)
             idle == ~Snapshot(a).roundActive /\ ~Snapshot(a).isSpinning /\ isRunning(a)
         IN IF idle THEN startNewRound(a) ELSE a

\* The loop of the /delete handler from index i down to the first element.
RECURSIVE deleteLoop(_, _, _)
deleteLoop(q, v, i) ==
    IF i = 0 THEN q
    ELSE deleteLoop(IF q[i] = v THEN RemoveAt(q, i) ELSE q, v, i - 1)

\* A faulty deletion that removes only the first occurrence (C14 must reject it).
deleteFromQueue_FirstOnly(q, v) ==
    IF \E k \in 1..Len(q) : q[k] = v
    THEN RemoveAt(q, CHOOSE k \in 1..Len(q) :
                        q[k] = v /\ \A j \in 1..(k - 1) : q[j] # v)
    ELSE q

\* The queue the /delete handler leaves.
deleteFromQueue(q, v) == deleteLoop(q, v, Len(q))

\* deletedCount = initialLength - spinQueue.length.
deletedCount(q, v) == Len(q) - Len(deleteFromQueue(q, v))

\* The handler's answer.
deleteOutcome(q, v) == IF deletedCount(q, v) > 0 THEN "deleted" ELSE "not_found"

\* The size-checking version of the "spin: n" handler, up to its await of
\* storeSpinResult (or to its return): "invalid", "queue_full" or "suspended".
addSpinCheckedOutcome(s, n) ==
    IF ~isValidRouletteNumber(n) THEN "invalid"
    ELSE IF Len(s.spinQueue) >= MAX_SPIN_QUEUE_SIZE THEN "queue_full"
    ELSE "suspended"

addSpinChecked(s, n) ==
    IF addSpinCheckedOutcome(s, n) = "suspended"
    THEN [s EXCEPT !.addSpinFrames = Append(@, [index |-> n])]
    ELSE s

\* The same handler from the return of storeSpinResult to its end (frame i);
\* stored: the store took the row (otherwise the handler got null).
addSpinStored(s, i, stored, elapsed) ==
    LET n == s.addSpinFrames[i].index
        a == [s EXCEPT !.addSpinFrames = RemoveAt(@, i),
                       !.spinResults =
                           IF stored
                           THEN Append(@, [number |-> n,
                                           color |-> getRouletteColor(n),
                                           parity |-> getRouletteParity(n),
                                           is_deleted |-> FALSE])
                           ELSE @,
                       !.spinQueue = Append(@, n)]
        b == getGameStateResponse(a, elapsed)
        idle == ~Snapshot(b).roundActive /\ ~Snapshot(b).isSpinning /\ isRunning(b)
    IN IF idle THEN startNewRound(b) ELSE b

\* The size-checking version of POST /api/trigger-spin.
apiTriggerSpin(s, n) ==
    IF ~isValidRouletteNumber(n) THEN s
    ELSE IF Len(s.spinQueue) >= MAX_SPIN_QUEUE_SIZE THEN s
    ELSE triggerManualSpin(s, n)

\* SupabaseService.logAction: one row of bot_audit_logs when the store is
\* configured, nothing otherwise.
logAction(s, action) ==
    IF s.configured THEN [s EXCEPT !.auditLog = Append(@, action)] ELSE s

\* The bot's handlers with their audit calls; admin: isAdmin(userId).
onSpin(s, admin, n, elapsed) ==
    IF ~admin THEN logAction(s, "add_spin_unauthorized")
    ELSE IF ~isValidRouletteNumber(n) THEN logAction(s, "add_spin_invalid")
    ELSE logAction(addSpin(s, n, elapsed), "add_spin")

onStatus(s, admin, elapsed) ==
    IF ~admin THEN s
    ELSE logAction(getGameStateResponse(s, elapsed), "check_status")

onDelete(s, admin, v) ==
    IF ~admin THEN s
    ELSE logAction([s EXCEPT !.spinQueue = deleteFromQueue(@, v)],
                   IF deletedCount(s.spinQueue, v) > 0
                   THEN "delete_value" ELSE "delete_value_not_found")

handleDeleteQueue(s, admin) ==
    IF ~admin THEN s
    ELSE logAction([s EXCEPT !.spinQueue = <<>>], "clear_queue")

onResume(s, admin, elapsed) ==
    IF ~admin THEN s
    ELSE IF resumeSucceeds(s)
         THEN logAction(getGameStateResponse(resume(s), elapsed), "resume_game")
         ELSE logAction(s, "resume_game_failed")

onStop(s, admin, elapsed) ==
    IF ~admin THEN s
    ELSE IF pauseSucceeds(s)
         THEN logAction(getGameStateResponse(pause(s), elapsed), "pause_game")
         ELSE logAction(s, "pause_game_failed")

onReset(s, admin) ==
    IF ~admin THEN s
    ELSE logAction(getGameStateResponse(reset(s), TRUE), "reset_game")

onHelp(s, admin) ==
    IF ~admin THEN s ELSE logAction(s, "help_requested")

\* The /results handler; fetched: "rows", "none" (no row found) or "error".
onResults(s, admin, fetched) ==
    IF ~admin THEN s
    ELSE IF fetched = "none" THEN s
    ELSE IF fetched = "rows" THEN logAction(s, "view_results")
    ELSE logAction(s, "view_results_error")

\* ------------------------------------------------------------------ actions
\* The admin's "spin: n" message.
BotSpin(n, elapsed) ==
    /\ Macrotask
    /\ elapsed \in Elapsed(Cur)
    /\ Commit(addSpin(Cur, n, elapsed))

\* The admin's /clear or /delete_queue message.
BotDeleteQueue ==
    /\ Macrotask
    /\ Commit([Cur EXCEPT !.spinQueue = <<>>])

\* The admin's "/delete v" message.
BotDelete(v) ==
    /\ Macrotask
    /\ Commit([Cur EXCEPT !.spinQueue = deleteFromQueue(@, v)])

\* The admin's /status message.
BotStatus(elapsed) ==
    /\ Macrotask
    /\ elapsed \in Elapsed(Cur)
    /\ Commit(getGameStateResponse(Cur, elapsed))

\* The admin's /reset message.
BotReset ==
    /\ Macrotask
    /\ Commit(getGameStateResponse(reset(Cur), TRUE))

\* The admin's /stop message.
BotPause(elapsed) ==
    /\ Macrotask
    /\ elapsed \in Elapsed(Cur)
    /\ IF isRunning(Cur)
       THEN Commit(getGameStateResponse(pause(Cur), elapsed))
       ELSE Commit(Cur)

\* The admin's /resume message.
BotResume(elapsed) ==
    /\ Macrotask
    /\ elapsed \in Elapsed(Cur)
    /\ IF ~isRunning(Cur)
       THEN Commit(getGameStateResponse(resume(Cur), elapsed))
       ELSE Commit(Cur)

\* The oldest timeout set by startNewRound fires: await this.endRound().
RoundTimerFires ==
    /\ Macrotask
    /\ roundTimers >= 1
    /\ LET s == [Cur EXCEPT !.roundTimers = @ - 1]
       IN Commit(endRound(s))

\* logSpinProcessing has returned to the suspended endRound i.
EndRoundResume(i) ==
    /\ i \in 1..Len(endRoundFrames)
    /\ Commit(endRoundResume(Cur, i))

\* The oldest timeout set by endRound fires: await this.endSpin().
SpinTimerFires ==
    /\ Macrotask
    /\ spinTimers >= 1
    /\ LET s == [Cur EXCEPT !.spinTimers = @ - 1]
       IN Commit(endSpin(s))

\* storeSpinResult returns to the suspended endSpin i: the store is not configured.
EndSpinSkipStore(i) ==
    /\ i \in 1..Len(endSpinFrames)
    /\ ~configured
    /\ Commit(endSpinFinish(Cur, i))

\* storeSpinResult returns to the suspended endSpin i or throws, after `fails`
\* failed attempts.
EndSpinResume(i, fails) ==
    /\ i \in 1..Len(endSpinFrames)
    /\ configured
    /\ Commit(endSpinFinish(storeSpinResult(Cur, i, fails), i))

\* POST /api/trigger-round-end.
TriggerRoundEnd ==
    /\ Macrotask
    /\ Commit(triggerRoundEnd(Cur))

\* POST /api/trigger-spin and /api/trigger-random-spin: triggerManualSpin(n).
TriggerManualSpin(n) ==
    /\ Macrotask
    /\ Commit(triggerManualSpin(Cur, n))

\* One tick of the activity monitor's setInterval.
CheckActivity(timedOut) ==
    /\ Macrotask
    /\ Commit(checkActivity(Cur, timedOut))

\* GET /api/game-state.
PollGameState(elapsed) ==
    /\ Macrotask
    /\ elapsed \in Elapsed(Cur)
    /\ Commit(getGameStateResponse(recordFrontendActivity(Cur), elapsed))

\* POST /api/spin-end.
SpinEndRequest(elapsed) ==
    /\ Macrotask
    /\ elapsed \in Elapsed(Cur)
    /\ LET s == getGameStateResponse(recordFrontendActivity(Cur), elapsed)
       IN IF Snapshot(s).isSpinning
          THEN Commit(endSpin(s))
          ELSE Commit(s)

Next ==
    \/ \E n \in SpinInputs \cup InvalidInputs, elapsed \in BOOLEAN : BotSpin(n, elapsed)
    \/ BotDeleteQueue
    \/ \E v \in SpinInputs \cup InvalidInputs : BotDelete(v)
    \/ \E elapsed \in BOOLEAN : BotStatus(elapsed)
    \/ BotReset
    \/ \E elapsed \in BOOLEAN : BotPause(elapsed)
    \/ \E elapsed \in BOOLEAN : BotResume(elapsed)
    \/ RoundTimerFires
    \/ \E i \in 1..MaxPending : EndRoundResume(i)
    \/ SpinTimerFires
    \/ \E i \in 1..MaxPending : EndSpinSkipStore(i)
    \/ \E i \in 1..MaxPending, fails \in 0..maxRetries : EndSpinResume(i, fails)
    \/ TriggerRoundEnd
    \/ \E n \in SpinInputs \cup InvalidInputs : TriggerManualSpin(n)
    \/ \E timedOut \in BOOLEAN : CheckActivity(timedOut)
    \/ \E elapsed \in BOOLEAN : PollGameState(elapsed)
    \/ \E elapsed \in BOOLEAN : SpinEndRequest(elapsed)

Spec == Init /\ [][Next]_vars

\* ------------------------------------------- the size-checked enqueue paths
\* The admin's "spin: n" message, handled by the size-checking handler.
BotSpinChecked(n) ==
    /\ Macrotask
    /\ Commit(addSpinChecked(Cur, n))

\* storeSpinResult returns to the suspended handler i.
BotSpinStored(i, stored, elapsed) ==
    /\ i \in 1..Len(addSpinFrames)
    /\ elapsed \in Elapsed(Cur)
    /\ Commit(addSpinStored(Cur, i, stored, elapsed))

\* POST /api/trigger-spin, handled by the size-checking route.
ApiTriggerSpin(n) ==
    /\ Macrotask
    /\ Commit(apiTriggerSpin(Cur, n))

InitQueue == Init /\ configured

NextQueue ==
    \/ \E n \in SpinInputs \cup InvalidInputs : BotSpinChecked(n)
    \/ \E i \in 1..MaxAdders, stored \in BOOLEAN, elapsed \in BOOLEAN :
           BotSpinStored(i, stored, elapsed)
    \/ \E n \in SpinInputs \cup InvalidInputs : ApiTriggerSpin(n)
    \/ RoundTimerFires
    \/ \E i \in 1..MaxPending : EndRoundResume(i)
    \/ SpinTimerFires
    \/ \E i \in 1..MaxPending, fails \in 0..maxRetries : EndSpinResume(i, fails)

SpecQueue == InitQueue /\ [][NextQueue]_vars

\* ------------------------------------------------------------------- claims
Idle(s) == ~s.roundActive /\ ~s.isSpinning

\* The result store holds a row for number n.
Persisted(s, n) == \E k \in 1..Len(s.spinResults) : s.spinResults[k].number = n

\* C1: in every reachable state, whatever the interleaving of the handlers and
\* timers and also while a handler is suspended at a store call, roundActive
\* and isSpinning are not both true.
C1_PhaseFlagsExclusive == ~(roundActive /\ isSpinning)

\* An endRound is suspended at its store call while other handlers may run.
C1_Witness == configured /\ roundActive /\ Len(endRoundFrames) > 0

\* C2: while an endRound call of an active round is in flight (it has passed
\* the guard and is suspended at its store call), a triggerRoundEnd() or a
\* timer-fired endRound() issued for that round is rejected: it performs no
\* round-end transition and changes nothing.
C2_SecondEndRoundRejected ==
    (roundActive /\ Len(endRoundFrames) > 0) =>
        /\ triggerRoundEnd(Cur) = Cur
        /\ endRound(Cur) = Cur

\* C3: endRound running on an active round with a non-empty queue q, with
\* nothing else touching the queue before it completes, commits Head(q),
\* leaves Tail(q) as the queue and leaves the machine spinning with
\* roundActive false.  Checked for the call made in every reachable state and
\* for every suspended call whose queue is as the call left it.
C3_EndRoundCommitsHead ==
    /\ (roundActive /\ spinQueue # <<>>) =>
          LET a == endRound(Cur)
              b == endRoundResume(a, Len(a.endRoundFrames))
          IN /\ a.currentSpinIndex = Some(Head(spinQueue))
             /\ b.currentSpinIndex = Some(Head(spinQueue))
             /\ b.spinQueue = Tail(spinQueue)
             /\ b.isSpinning
             /\ ~b.roundActive
    /\ \A i \in 1..Len(endRoundFrames) :
          spinQueue = <<>> =>
              LET b == endRoundResume(Cur, i)
              IN /\ b.spinQueue = Tail(endRoundFrames[i].spins)
                 /\ b.isSpinning
                 /\ ~b.roundActive

\* endRound has taken a queue of three, whose rest is in a visible order, and
\* is suspended with the head committed.
C3_Witness ==
    /\ roundActive
    /\ Len(endRoundFrames) = 1
    /\ Len(endRoundFrames[1].spins) = 3
    /\ endRoundFrames[1].spins[2] # endRoundFrames[1].spins[3]
    /\ spinQueue = <<>>
    /\ currentSpinIndex = Some(Head(endRoundFrames[1].spins))

\* C4: the result of a committed spin is persisted when the spin starts: while
\* the spin is in progress the store holds a row for its number.
C4_PersistedAtSpinStart ==
    (isSpinning /\ currentSpinIndex # None) => Persisted(Cur, currentSpinIndex[1])

\* C5: whatever state reset() is called in, the state it leaves has
\* roundActive false, isSpinning false, no result number, an empty queue and
\* the run state RUNNING.
C5_ResetClearsEverything ==
    LET r == reset(Cur)
    IN /\ ~r.roundActive
       /\ ~r.isSpinning
       /\ r.currentSpinIndex = None
       /\ r.spinQueue = <<>>
       /\ r.currentState = "running"

\* A state only reset() leaves: the timeout of a round is still pending while
\* the round's start time and the activity stamp are cleared.
C5_Witness ==
    /\ roundTimers >= 1
    /\ currentRoundStartTime = "null"
    /\ lastFrontendActivity = "null"
    /\ Idle(Cur)
    /\ currentSpinIndex = None
    /\ spinQueue = <<>>
    /\ currentState = "running"

\* C6: for every n in 0..36, triggerManualSpin(n) called while a round is
\* active and no spin is in progress succeeds, commits n at once and, when
\* the call returns (nothing else running in between), has left the machine
\* spinning with result n and the round ended, whatever was queued; what was
\* queued stays queued in its order.
C6_ManualSpinCommitsInRound ==
    (roundActive /\ ~isSpinning) =>
        \A n \in 0..36 :
            LET a == triggerManualSpin(Cur, n)
                b == endRoundResume(a, Len(a.endRoundFrames))
            IN /\ triggerManualSpinOutcome(Cur, n) = "suspended"
               /\ a.currentSpinIndex = Some(n)
               /\ b.isSpinning
               /\ ~b.roundActive
               /\ b.currentSpinIndex = Some(n)
               /\ b.spinQueue = spinQueue

\* A round is active with two numbers queued, neither of which is 0: a manual
\* spin of 0 is committed ahead of both.
C6_Witness ==
    /\ roundActive
    /\ ~isSpinning
    /\ Len(endRoundFrames) = 0
    /\ Len(spinQueue) = 2
    /\ Head(spinQueue) # 0
    /\ triggerManualSpin(Cur, 0).currentSpinIndex = Some(0)

\* C7: for every n in 0..36, triggerManualSpin(n) called while idle succeeds,
\* puts n at the head of the queue and leaves the machine idle with no round
\* started and no spin; the next startNewRound followed by endRound commits n.
C7_ManualSpinQueuesWhenIdle ==
    Idle(Cur) =>
        \A n \in 0..36 :
            LET a == triggerManualSpin(Cur, n)
                b == endRound(startNewRound(a))
            IN /\ triggerManualSpinOutcome(Cur, n) = "queued"
               /\ a.spinQueue = <<n>> \o spinQueue
               /\ a = [Cur EXCEPT !.spinQueue = a.spinQueue]
               /\ isRunning(a) => b.currentSpinIndex = Some(n)

\* The machine is idle and running with a number other than 0 queued: a manual
\* spin of 0 goes in front of it.
C7_Witness ==
    /\ Idle(Cur)
    /\ isRunning(Cur)
    /\ spinQueue # <<>>
    /\ Head(spinQueue) # 0
    /\ Head(triggerManualSpin(Cur, 0).spinQueue) = 0

\* C8: a round whose queue is empty when its duration elapses, no number having
\* been committed for it, ends idle with no result number; no SpinResult is
\* persisted, no spin is scheduled and the queue stays empty.
C8_EmptyRoundEndsIdle ==
    (roundActive /\ spinQueue = <<>> /\ Len(endRoundFrames) = 0) =>
        LET a == endRound(Cur)
        IN /\ Idle(a)
           /\ a.currentSpinIndex = None
           /\ a.spinResults = spinResults
           /\ a.endSpinFrames = endSpinFrames
           /\ a.spinTimers = spinTimers
           /\ a.spinQueue = spinQueue
           /\ getGameStateResponse(Cur, TRUE) = a

\* A round is active with nothing queued and nothing committed; its timeout is
\* pending.
C8_Witness ==
    /\ roundActive
    /\ spinQueue = <<>>
    /\ Len(endRoundFrames) = 0
    /\ currentSpinIndex = None
    /\ roundTimers = 1

C10_SweepKeepsPersistedResult ==
    lastFrontendActivity # "null" =>
        LET a == checkActivity(Cur, TRUE)
        IN /\ roundActive =>
                /\ Idle(a)
                /\ a.spinResults = spinResults
                /\ a.endSpinFrames = endSpinFrames
           /\ (isSpinning /\ currentSpinIndex # None) =>
                /\ Idle(a)
                /\ a.spinResults = spinResults
                /\ Persisted(a, currentSpinIndex[1])

\* C11: a number the admin enqueues while an endRound of the active round is
\* suspended at its store call is not the result of that round: when that
\* endRound completes the committed number is the one it had committed, and
\* the queue is the rest of its batch, in order, followed by what was queued
\* meanwhile and the new number.
C11_EnqueueDuringEndRoundNotCommitted ==
    (configured /\ roundActive) =>
        \A i \in 1..Len(endRoundFrames) :
            \A n \in SpinInputs, elapsed \in Elapsed(Cur) :
                LET a == addSpin(Cur, n, elapsed)
                    b == endRoundResume(a, i)
                IN /\ b.currentSpinIndex = currentSpinIndex
                   /\ b.spinQueue = Tail(endRoundFrames[i].spins) \o spinQueue \o <<n>>

\* The phase of the machine.
Phase ==
    IF isSpinning THEN "Spinning"
    ELSE IF roundActive THEN "RoundActive"
    ELSE "Idle"

\* C12: every step that changes the phase takes it from Idle to RoundActive,
\* from RoundActive to Spinning, from Spinning to Idle or from RoundActive to
\* Idle; no step takes it from Spinning to RoundActive or from Idle to
\* Spinning.
C12_PhaseChangesAllowed ==
    [][Phase' # Phase =>
          <<Phase, Phase'>> \in {<<"Idle", "RoundActive">>,
                                 <<"RoundActive", "Spinning">>,
                                 <<"Spinning", "Idle">>,
                                 <<"RoundActive", "Idle">>}]_vars

\* C13: in every reachable state the queue holds at most MAX_SPIN_QUEUE_SIZE
\* numbers, whatever the interleaving of the size-checked enqueues, the manual
\* triggers and endRound returning its rest; and an enqueue attempted on a full
\* queue gets the queue-full outcome and changes nothing.
C13_QueueWithinBound ==
    /\ Len(spinQueue) <= MAX_SPIN_QUEUE_SIZE
    /\ Len(spinQueue) >= MAX_SPIN_QUEUE_SIZE =>
          \A n \in SpinInputs :
              /\ addSpinCheckedOutcome(Cur, n) = "queue_full"
              /\ addSpinChecked(Cur, n) = Cur

\* The number of occurrences of v in q.
Occurrences(q, v) == Cardinality({k \in 1..Len(q) : q[k] = v})

\* C14: for every queue and every value v, the /delete handler leaves the
\* queue without any v and with the other numbers in their order, and reports
\* as deleted count the number of occurrences of v; when there is none it
\* answers not found and leaves the queue as it was.
C14_DeleteRemovesAllOccurrences ==
    \A v \in SpinInputs \cup InvalidInputs :
        /\ deleteFromQueue(spinQueue, v) = SelectSeq(spinQueue, LAMBDA x : x # v)
        /\ deletedCount(spinQueue, v) = Occurrences(spinQueue, v)
        /\ Occurrences(spinQueue, v) = 0 =>
              /\ deleteOutcome(spinQueue, v) = "not_found"
              /\ deleteFromQueue(spinQueue, v) = spinQueue
        /\ Occurrences(spinQueue, v) > 0 => deleteOutcome(spinQueue, v) = "deleted"

\* The queue holds 0 twice with a 5 in between: deleting 0 leaves the 5 and
\* reports two.
C14_Witness ==
    /\ spinQueue = <<0, 5, 0>>
    /\ deleteFromQueue(spinQueue, 0) = <<5>>
    /\ deletedCount(spinQueue, 0) = 2

\* ----------------------------------------------- the number classification
\* Numbers given to the classification functions, valid and not.
RouletteInputs == (0 - 3)..40

\* A spin of any valid number is in progress, its endSpin timeout pending.
InitRoulette ==
    /\ currentState = "running"
    /\ roundActive = FALSE
    /\ isSpinning = TRUE
    /\ currentRoundStartTime = "set"
    /\ currentSpinIndex \in {Some(n) : n \in {m \in RouletteInputs : isValidRouletteNumber(m)}}
    /\ lastFrontendActivity = "null"
    /\ spinQueue = <<>>
    /\ configured = TRUE
    /\ spinResults = <<>>
    /\ roundTimers = 0
    /\ spinTimers = 1
    /\ endRoundFrames = <<>>
    /\ endSpinFrames = <<>>
    /\ addSpinFrames = <<>>
    /\ auditLog = <<>>
    /\ operationLock = FALSE
    /\ cachedLastSpinResult = None
    /\ sampleSpinFrames = <<>>

NextRoulette ==
    \/ SpinTimerFires
    \/ \E i \in 1..MaxPending, fails \in 0..maxRetries : EndSpinResume(i, fails)

SpecRoulette == InitRoulette /\ [][NextRoulette]_vars

\* C15: for n in 0..36 the colour is Green for 0, Red for the numbers of the
\* red set and Black for all others, and the parity is None for 0 and else
\* Even or Odd by n mod 2; outside 0..36 both functions fail.  The rows the
\* store receives carry the colour and parity so defined.
C15_ColorAndParity ==
    /\ \A n \in RouletteInputs :
          IF n >= 0 /\ n <= 36
          THEN /\ getRouletteColor(n) =
                      IF n = 0 THEN "Green"
                      ELSE IF n \in RED_NUMBERS THEN "Red" ELSE "Black"
               /\ getRouletteParity(n) =
                      IF n = 0 THEN "None"
                      ELSE IF n % 2 = 0 THEN "Even" ELSE "Odd"
               /\ n >= 1 => (n \in RED_NUMBERS) # (n \in BLACK_NUMBERS)
          ELSE /\ getRouletteColor(n) = "throw"
               /\ getRouletteParity(n) = "throw"
    /\ \A k \in 1..Len(spinResults) :
          LET r == spinResults[k]
          IN /\ r.color = IF r.number = 0 THEN "Green"
                          ELSE IF r.number \in RED_NUMBERS THEN "Red" ELSE "Black"
             /\ r.parity = IF r.number = 0 THEN "None"
                           ELSE IF r.number % 2 = 0 THEN "Even" ELSE "Odd"

\* The spin of 26 has ended and its row says Black and Even.
C15_Witness ==
    /\ ~isSpinning
    /\ spinResults = <<[number |-> 26, color |-> "Black", parity |-> "Even",
                     is_deleted |-> FALSE]>>

\* A phase-mutating operation is in progress (suspended at a store call): the
\* time during which the latch is to be held.
OperationInProgress(s) == Len(s.endRoundFrames) + Len(s.endSpinFrames) > 0

\* startNewRound returns true.
startNewRoundSucceeds(s) == startNewRound(s) # s

\* C16: startNewRound succeeds, setting roundActive, recording the start time
\* and scheduling exactly one round timeout, only when the game is running, no
\* round is active and no operation is in progress; in every other case it
\* fails and changes nothing.
C16_StartRoundOnlyWhenFree ==
    LET a == startNewRound(Cur)
    IN IF isRunning(Cur) /\ ~roundActive /\ ~OperationInProgress(Cur)
       THEN /\ startNewRoundSucceeds(Cur)
            /\ a.roundActive
            /\ a.currentRoundStartTime = "set"
            /\ a.roundTimers = roundTimers + 1
            /\ a.spinTimers = spinTimers
            /\ a.spinQueue = spinQueue
       ELSE /\ ~startNewRoundSucceeds(Cur)
            /\ a = Cur

\* C17: a snapshot asked for when the active round's duration has elapsed
\* reports roundActive false, whether or not numbers are queued.
C17_SnapshotEndsExpiredRound ==
    (roundActive /\ Macrotask /\ TRUE \in Elapsed(Cur)) =>
        ~Snapshot(getGameStateResponse(Cur, TRUE)).roundActive

OutOfRangeInputs == {0 - 1, 37, 100}

C20_PauseResume ==
    LET p == pause(Cur)
        r == resume(Cur)
    IN /\ pauseSucceeds(Cur) <=> currentState = "running"
       /\ resumeSucceeds(Cur) <=> currentState # "running"
       /\ pauseSucceeds(Cur) => p.currentState = "paused"
       /\ resumeSucceeds(Cur) => r.currentState = "running"
       /\ ~pauseSucceeds(Cur) => p.currentState = currentState
       /\ ~resumeSucceeds(Cur) => r.currentState = currentState
       /\ p = [Cur EXCEPT !.currentState = p.currentState]
       /\ r = [Cur EXCEPT !.currentState = r.currentState]

\* The game was paused during a round with a number queued and is still so.
C20_Witness ==
    /\ currentState = "paused"
    /\ roundActive
    /\ spinQueue # <<>>
    /\ pause(Cur) = Cur
    /\ resume(Cur).roundActive

\* ------------------------------------------------------- the audit trail
\* Chat messages with the bot's commands, from an admin or not.
CmdSpin(admin, n, elapsed) ==
    /\ Macrotask
    /\ elapsed \in Elapsed(Cur)
    /\ Commit(onSpin(Cur, admin, n, elapsed))

CmdStatus(admin, elapsed) ==
    /\ Macrotask
    /\ elapsed \in Elapsed(Cur)
    /\ Commit(onStatus(Cur, admin, elapsed))

CmdDelete(admin, v) == Macrotask /\ Commit(onDelete(Cur, admin, v))

CmdDeleteQueue(admin) == Macrotask /\ Commit(handleDeleteQueue(Cur, admin))

CmdResume(admin, elapsed) ==
    /\ Macrotask
    /\ elapsed \in Elapsed(Cur)
    /\ Commit(onResume(Cur, admin, elapsed))

CmdStop(admin, elapsed) ==
    /\ Macrotask
    /\ elapsed \in Elapsed(Cur)
    /\ Commit(onStop(Cur, admin, elapsed))

CmdReset(admin) == Macrotask /\ Commit(onReset(Cur, admin))

CmdHelp(admin) == Macrotask /\ Commit(onHelp(Cur, admin))

CmdResults(admin, fetched) == Macrotask /\ Commit(onResults(Cur, admin, fetched))

InitAudit == Init /\ configured

NextAudit ==
    \/ \E admin \in BOOLEAN, n \in SpinInputs \cup InvalidInputs, elapsed \in BOOLEAN :
           CmdSpin(admin, n, elapsed)
    \/ \E admin \in BOOLEAN, elapsed \in BOOLEAN : CmdStatus(admin, elapsed)
    \/ \E admin \in BOOLEAN, v \in SpinInputs \cup InvalidInputs : CmdDelete(admin, v)
    \/ \E admin \in BOOLEAN : CmdDeleteQueue(admin)
    \/ \E admin \in BOOLEAN, elapsed \in BOOLEAN : CmdResume(admin, elapsed)
    \/ \E admin \in BOOLEAN, elapsed \in BOOLEAN : CmdStop(admin, elapsed)
    \/ \E admin \in BOOLEAN : CmdReset(admin)
    \/ \E admin \in BOOLEAN : CmdHelp(admin)
    \/ \E admin \in BOOLEAN, fetched \in {"rows", "none", "error"} :
           CmdResults(admin, fetched)

SpecAudit == InitAudit /\ [][NextAudit]_vars

\* The rows a handler appends when it leaves state a.
Audited(a) == Len(a.auditLog) - Len(auditLog)

\* C21: every command of the bot, accepted or rejected, from an admin or not,
\* appends exactly one audit entry.
C21_OneAuditEntryPerCommand ==
    \A admin \in BOOLEAN :
        /\ \A n \in SpinInputs \cup InvalidInputs, elapsed \in Elapsed(Cur) :
              Audited(onSpin(Cur, admin, n, elapsed)) = 1
        /\ \A elapsed \in Elapsed(Cur) : Audited(onStatus(Cur, admin, elapsed)) = 1
        /\ \A v \in SpinInputs \cup InvalidInputs : Audited(onDelete(Cur, admin, v)) = 1
        /\ Audited(handleDeleteQueue(Cur, admin)) = 1
        /\ \A elapsed \in Elapsed(Cur) : Audited(onResume(Cur, admin, elapsed)) = 1
        /\ \A elapsed \in Elapsed(Cur) : Audited(onStop(Cur, admin, elapsed)) = 1
        /\ Audited(onReset(Cur, admin)) = 1
        /\ Audited(onHelp(Cur, admin)) = 1
        /\ \A fetched \in {"rows", "none", "error"} :
              Audited(onResults(Cur, admin, fetched)) = 1

\* C22: while one of startNewRound, endRound and endSpin is in progress, a
\* call of any of the three is refused at once and changes nothing (phase
\* flags, queue, timers), so that a second operation never starts before the
\* first has finished, reset or no reset.
C22_BusyOperationsRefused ==
    (Macrotask /\ OperationInProgress(Cur)) =>
        /\ startNewRound(Cur) = Cur
        /\ endRound(Cur) = Cur
        /\ endSpin(Cur) = Cur

\* ------------------------------- the documented coordinator (operationLock)
\* The coordinator as README.md lists it: every operation takes operationLock,
\* and the timeouts are kept in one handle each and cleared before being set.
startNewRoundLocked(s) ==
    IF s.operationLock \/ ~isRunning(s) \/ s.roundActive THEN s
    ELSE [s EXCEPT !.roundActive = TRUE,
                   !.isSpinning = FALSE,
                   !.currentRoundStartTime = "set",
                   !.currentSpinIndex = None,
                   !.roundTimers = 1,
                   !.operationLock = FALSE]

\* endRound up to its await of logSpinProcessing (or to its return).
endRoundLocked(s) ==
    IF s.operationLock \/ ~s.roundActive THEN s
    ELSE IF s.spinQueue = <<>> THEN
        [s EXCEPT !.roundTimers = 0,
                  !.roundActive = FALSE,
                  !.isSpinning = FALSE,
                  !.currentSpinIndex = None,
                  !.operationLock = FALSE]
    ELSE
        [s EXCEPT !.roundTimers = 0,
                  !.spinQueue = <<>>,
                  !.currentSpinIndex = Some(Head(s.spinQueue)),
                  !.endRoundFrames = Append(@, [spins |-> s.spinQueue]),
                  !.operationLock = TRUE]

\* endRound from the return of logSpinProcessing, which swallows the store's
\* errors, to its end (frame i).
endRoundLockedResume(s, i) ==
    LET spins == s.endRoundFrames[i].spins
    IN [s EXCEPT !.spinQueue = IF Len(spins) > 1 THEN Tail(spins) \o @ ELSE @,
                 !.isSpinning = TRUE,
                 !.roundActive = FALSE,
                 !.spinTimers = 1,
                 !.endRoundFrames = RemoveAt(@, i),
                 !.operationLock = FALSE]

\* endSpin up to its await of refreshLastSpinCache (or to its return).
endSpinLocked(s) ==
    IF s.operationLock \/ ~s.isSpinning THEN s
    ELSE [s EXCEPT !.spinTimers = 0,
                   !.isSpinning = FALSE,
                   !.currentSpinIndex = None,
                   !.endSpinFrames = Append(@, [spinNumber |-> s.currentSpinIndex]),
                   !.operationLock = TRUE]

\* getMockSpinResults(1, false)[0]: what SupabaseService.getLastSpinResults
\* answers in place of rows it could not read or did not find.
mockSpinResult ==
    [number |-> 32, color |-> "Red", parity |-> "Even", is_deleted |-> FALSE]

\* The most recent row that is not soft-deleted, None when there is none.
lastNonDeleted(rows) ==
    LET live == {k \in 1..Len(rows) : ~rows[k].is_deleted}
    IN IF live = {} THEN None
       ELSE Some(rows[CHOOSE k \in live : \A j \in live : j <= k])

\* SupabaseService.getLastSpinResults(1, false)[0], null as None.  fetched:
\* "rows" (the query answered), "error" (it answered with an error) or
\* "exception" (the client threw, or the table is missing).
getLastSpinResults(s, fetched) ==
    IF ~s.configured \/ fetched = "exception" THEN Some(mockSpinResult)
    ELSE IF fetched = "error" THEN None
    ELSE IF lastNonDeleted(s.spinResults) = None THEN Some(mockSpinResult)
    ELSE lastNonDeleted(s.spinResults)

\* refreshLastSpinCache: getLastSpinResult(true).
refreshLastSpinCache(s, fetched) ==
    [s EXCEPT !.cachedLastSpinResult = getLastSpinResults(s, fetched)]

\* A faulty end of endSpin that keeps the lock when the refresh could not
\* read the rows (C23 must reject it).
endSpinLockedFinish_KeepsLockOnError(s, i, fetched) ==
    [refreshLastSpinCache(s, fetched)
        EXCEPT !.endSpinFrames = RemoveAt(@, i),
               !.operationLock = IF fetched = "rows" THEN FALSE ELSE @]

\* endSpin after refreshLastSpinCache has returned (frame i).
endSpinLockedFinish(s, i, fetched) ==
    [refreshLastSpinCache(s, fetched)
        EXCEPT !.endSpinFrames = RemoveAt(@, i),
               !.operationLock = FALSE]

resetLocked(s) ==
    [s EXCEPT !.roundTimers = 0,
              !.spinTimers = 0,
              !.currentState = "running",
              !.roundActive = FALSE,
              !.isSpinning = FALSE,
              !.currentRoundStartTime = "null",
              !.currentSpinIndex = None,
              !.lastFrontendActivity = "null",
              !.operationLock = FALSE,
              !.cachedLastSpinResult = None,
              !.spinQueue = <<>>]

getGameStateResponseLocked(s, elapsed) ==
    IF s.roundActive /\ s.currentRoundStartTime # "null" /\ elapsed
    THEN endRoundLocked(s)
    ELSE s

triggerRoundEndLocked(s) ==
    IF ~s.roundActive THEN s ELSE endRoundLocked(s)

triggerManualSpinLocked(s, n) ==
    IF ~isValidRouletteNumber(n) \/ s.isSpinning THEN s
    ELSE LET a == [s EXCEPT !.spinQueue = <<n>> \o @]
         IN IF a.roundActive THEN endRoundLocked(a) ELSE a

\* The lastSpinResult of the snapshot getGameStateWithLastSpin returns in
\* state s (None when the snapshot has none), and the state it leaves.
lastSpinResult(s, fetched) ==
    IF Snapshot(s).roundActive \/ Snapshot(s).isSpinning THEN None
    ELSE IF s.cachedLastSpinResult # None THEN s.cachedLastSpinResult
    ELSE getLastSpinResults(s, fetched)

getGameStateWithLastSpin(s, elapsed, fetched) ==
    LET a == getGameStateResponseLocked(s, elapsed)
    IN IF ~Snapshot(a).roundActive /\ ~Snapshot(a).isSpinning
          /\ a.cachedLastSpinResult = None
       THEN refreshLastSpinCache(a, fetched)
       ELSE a

\* The size-checking "spin: n" handler on this coordinator, from the return of
\* storeSpinResult to its end (frame i), with the refresh of the cache that
\* follows a stored row.
addSpinStoredLocked(s, i, stored, fetched, elapsed) ==
    LET n == s.addSpinFrames[i].index
        a == [s EXCEPT !.addSpinFrames = RemoveAt(@, i),
                       !.spinResults =
                           IF stored
                           THEN Append(@, [number |-> n,
                                           color |-> getRouletteColor(n),
                                           parity |-> getRouletteParity(n),
                                           is_deleted |-> FALSE])
                           ELSE @]
        r == IF stored THEN refreshLastSpinCache(a, fetched) ELSE a
        b == getGameStateResponseLocked([r EXCEPT !.spinQueue = Append(@, n)], elapsed)
        idle == ~Snapshot(b).roundActive /\ ~Snapshot(b).isSpinning /\ isRunning(b)
    IN IF idle THEN startNewRoundLocked(b) ELSE b

LockedBotReset ==
    /\ Macrotask
    /\ Commit(getGameStateResponseLocked(resetLocked(Cur), TRUE))

LockedRoundTimerFires ==
    /\ Macrotask
    /\ roundTimers >= 1
    /\ Commit(endRoundLocked([Cur EXCEPT !.roundTimers = @ - 1]))

LockedEndRoundResume(i) ==
    /\ i \in 1..Len(endRoundFrames)
    /\ Commit(endRoundLockedResume(Cur, i))

LockedSpinTimerFires ==
    /\ Macrotask
    /\ spinTimers >= 1
    /\ Commit(endSpinLocked([Cur EXCEPT !.spinTimers = @ - 1]))

LockedEndSpinResume(i, fetched) ==
    /\ i \in 1..Len(endSpinFrames)
    /\ Commit(endSpinLockedFinish(Cur, i, fetched))

LockedTriggerRoundEnd ==
    /\ Macrotask
    /\ Commit(triggerRoundEndLocked(Cur))

LockedTriggerManualSpin(n) ==
    /\ Macrotask
    /\ Commit(triggerManualSpinLocked(Cur, n))

LockedCheckActivity(timedOut) ==
    /\ Macrotask
    /\ Commit(checkActivity(Cur, timedOut))

LockedPollGameState(elapsed, fetched) ==
    /\ Macrotask
    /\ elapsed \in Elapsed(Cur)
    /\ Commit(getGameStateWithLastSpin(recordFrontendActivity(Cur), elapsed, fetched))

LockedBotSpinStored(i, stored, fetched, elapsed) ==
    /\ i \in 1..Len(addSpinFrames)
    /\ elapsed \in Elapsed(Cur)
    /\ Commit(addSpinStoredLocked(Cur, i, stored, fetched, elapsed))

LockedSpinEndRequest(elapsed) ==
    /\ Macrotask
    /\ elapsed \in Elapsed(Cur)
    /\ LET s == getGameStateResponseLocked(recordFrontendActivity(Cur), elapsed)
       IN IF Snapshot(s).isSpinning
          THEN Commit(endSpinLocked(s))
          ELSE Commit(s)

Fetched == {"rows", "error", "exception"}

InitLocked == Init /\ configured

NextLocked ==
    \/ LockedBotReset
    \/ LockedRoundTimerFires
    \/ \E i \in 1..MaxPending : LockedEndRoundResume(i)
    \/ LockedSpinTimerFires
    \/ \E i \in 1..MaxPending, fetched \in Fetched : LockedEndSpinResume(i, fetched)
    \/ \E n \in SpinInputs \cup InvalidInputs : BotSpinChecked(n)
    \/ \E i \in 1..MaxAdders, stored \in BOOLEAN, fetched \in Fetched, elapsed \in BOOLEAN :
           LockedBotSpinStored(i, stored, fetched, elapsed)
    \/ LockedTriggerRoundEnd
    \/ \E n \in SpinInputs \cup InvalidInputs : LockedTriggerManualSpin(n)
    \/ \E timedOut \in BOOLEAN : LockedCheckActivity(timedOut)
    \/ \E elapsed \in BOOLEAN, fetched \in Fetched : LockedPollGameState(elapsed, fetched)
    \/ \E elapsed \in BOOLEAN : LockedSpinEndRequest(elapsed)

SpecLocked == InitLocked /\ [][NextLocked]_vars

C24_ResetNotUndoneByEndRound ==
    Macrotask =>
        \A i \in 1..Len(endRoundFrames) :
            LET r == reset(Cur)
                after == endRoundResume(r, i)
            IN /\ Idle(after)
               /\ after.spinQueue = <<>>
               /\ after.spinTimers = r.spinTimers

\* C25: once the activity sweep has forced Idle, a suspended endRound that
\* resumes afterwards does not put the machine into Spinning.
C25_SweepIdleNotUndoneByEndRound ==
    Macrotask =>
        \A i \in 1..Len(endRoundFrames) :
            LET c == checkActivity(Cur, TRUE)
            IN (c # Cur /\ Idle(c)) => ~endRoundResume(c, i).isSpinning


\* C26: timeouts are cancelled when their phase is superseded: in every
\* reachable state no round timeout is pending while no round is active, no
\* spin timeout is pending while no spin is in progress, and at most one
\* timeout of each kind is pending.
C26_NoTimerOutsideItsPhase ==
    /\ roundTimers >= 1 => roundActive
    /\ spinTimers >= 1 => isSpinning
    /\ roundTimers <= 1
    /\ spinTimers <= 1

\* C27: a stale timeout has no effect on a later phase: while a round is
\* active and the timeout of an earlier round is still pending (so the
\* round's own duration has not elapsed), that timeout firing changes
\* nothing; likewise the timeout of an earlier spin during a later spin.
C27_StaleTimerHasNoEffect ==
    Macrotask =>
        /\ (roundActive /\ roundTimers >= 2) =>
               LET s == [Cur EXCEPT !.roundTimers = @ - 1]
               IN endRound(s) = s
        /\ (isSpinning /\ spinTimers >= 2) =>
               LET s == [Cur EXCEPT !.spinTimers = @ - 1]
               IN endSpin(s) = s


\* C28: once delete-by-value v has reported its outcome, no occurrence of v
\* accepted before the command is in the queue or returns to it later, and
\* after clear-queue no number accepted before it does, even when the command
\* runs while an endRound has drained the queue and is suspended.
C28_DeletedNumbersStayDeleted ==
    Macrotask =>
        \A i \in 1..Len(endRoundFrames) :
            /\ \A v \in SpinInputs :
                   LET d == onDelete(Cur, TRUE, v)
                   IN Occurrences(endRoundResume(d, i).spinQueue, v) = 0
            /\ endRoundResume(handleDeleteQueue(Cur, TRUE), i).spinQueue = <<>>


\* What triggerRoundEnd() and triggerManualSpin(n) return on the documented
\* coordinator, and whether the endRound they call gets past its guards.
triggerRoundEndLockedResult(s) == s.roundActive

triggerManualSpinLockedResult(s, n) == isValidRouletteNumber(n) /\ ~s.isSpinning

endRoundLockedPerformed(s) == ~s.operationLock /\ s.roundActive

logSpinProcessing(s, ok) ==
    IF ok THEN logAction(s, "process_spin") ELSE s

\* C30: if persisting the committed result fails during endRound (nothing
\* else having touched the queue meanwhile), then when endRound finishes the
\* queue equals its contents before the drain, the machine is Idle with no
\* result number, and no spin timeout has been scheduled.
C30_PersistFailureRollsBack ==
    \A i \in 1..Len(endRoundFrames) :
        spinQueue = <<>> =>
            LET after == endRoundResume(logSpinProcessing(Cur, FALSE), i)
            IN /\ after.spinQueue = endRoundFrames[i].spins
               /\ Idle(after)
               /\ after.currentSpinIndex = None
               /\ after.spinTimers = spinTimers


\* C31: while runState is PAUSED or STOPPED the phase machine makes no forward
\* transition: startNewRound starts no round, endRound does not end an active
\* round into a spin, and endSpin does not end a spin.
C31_PausedMachineDoesNotProgress ==
    (Macrotask /\ ~isRunning(Cur)) =>
        /\ startNewRound(Cur) = Cur
        /\ endRound(Cur) = Cur
        /\ endSpin(Cur) = Cur


\* ------------------------------------------------- the table of spin results
\* The rows POST /api/test/create-sample-spins writes, as its literal lists them.
sampleSpins ==
    << [number |-> 32, color |-> "Red", parity |-> "Even"],
       [number |-> 0, color |-> "Green", parity |-> "None"],
       [number |-> 15, color |-> "Black", parity |-> "Odd"],
       [number |-> 7, color |-> "Red", parity |-> "Odd"],
       [number |-> 22, color |-> "Black", parity |-> "Even"],
       [number |-> 35, color |-> "Black", parity |-> "Odd"],
       [number |-> 12, color |-> "Red", parity |-> "Even"] >>

\* SupabaseService.storeSpinResult: the insert; inserted: the store took the row.
insertSpinResult(s, number, color, parity, inserted) ==
    IF s.configured /\ inserted
    THEN [s EXCEPT !.spinResults = Append(@, [number |-> number, color |-> color,
                                              parity |-> parity,
                                              is_deleted |-> FALSE])]
    ELSE s

\* The endpoint up to its first await, then from the return of the store call
\* of sample k to the next one (or to the response after the last).
createSampleSpins(s) == [s EXCEPT !.sampleSpinFrames = Append(@, 1)]

createSampleSpinsStep(s, i, inserted) ==
    LET k == s.sampleSpinFrames[i]
        a == insertSpinResult(s, sampleSpins[k].number, sampleSpins[k].color,
                              sampleSpins[k].parity, inserted)
    IN IF k < Len(sampleSpins)
       THEN [a EXCEPT !.sampleSpinFrames[i] = k + 1]
       ELSE [a EXCEPT !.sampleSpinFrames = RemoveAt(@, i)]

\* A faulty soft delete that also blanks the parity (C32 must reject it).
softDeleteSpinResult_BlanksParity(s, id, updated) ==
    IF s.configured /\ updated /\ id \in 1..Len(s.spinResults)
    THEN [s EXCEPT !.spinResults[id].is_deleted = TRUE,
                   !.spinResults[id].parity = "None"]
    ELSE s

\* SupabaseService.softDeleteSpinResult, restoreSpinResult and
\* permanentlyDeleteSpinResult; the id of a row is its place in the table.
softDeleteSpinResult(s, id, updated) ==
    IF s.configured /\ updated /\ id \in 1..Len(s.spinResults)
    THEN [s EXCEPT !.spinResults[id].is_deleted = TRUE]
    ELSE s

restoreSpinResult(s, id, updated) ==
    IF s.configured /\ updated /\ id \in 1..Len(s.spinResults)
    THEN [s EXCEPT !.spinResults[id].is_deleted = FALSE]
    ELSE s

permanentlyDeleteSpinResult(s, id, updated) ==
    IF s.configured /\ updated /\ id \in 1..Len(s.spinResults)
    THEN [s EXCEPT !.spinResults = RemoveAt(@, id)]
    ELSE s

CreateSampleSpins ==
    /\ Macrotask
    /\ Commit(createSampleSpins(Cur))

CreateSampleSpinsStep(i, inserted) ==
    /\ i \in 1..Len(sampleSpinFrames)
    /\ Commit(createSampleSpinsStep(Cur, i, inserted))

SoftDeleteSpinResult(id, updated) ==
    /\ Macrotask
    /\ id \in 1..Len(spinResults)
    /\ Commit(softDeleteSpinResult(Cur, id, updated))

RestoreSpinResult(id, updated) ==
    /\ Macrotask
    /\ id \in 1..Len(spinResults)
    /\ Commit(restoreSpinResult(Cur, id, updated))

PermanentlyDeleteSpinResult(id, updated) ==
    /\ Macrotask
    /\ id \in 1..Len(spinResults)
    /\ Commit(permanentlyDeleteSpinResult(Cur, id, updated))

InitStore == Init /\ configured

NextStore ==
    \/ \E n \in SpinInputs \cup InvalidInputs : BotSpinChecked(n)
    \/ \E i \in 1..MaxAdders, stored \in BOOLEAN, elapsed \in BOOLEAN :
           BotSpinStored(i, stored, elapsed)
    \/ RoundTimerFires
    \/ \E i \in 1..MaxPending : EndRoundResume(i)
    \/ SpinTimerFires
    \/ \E i \in 1..MaxPending, fails \in 0..maxRetries : EndSpinResume(i, fails)
    \/ CreateSampleSpins
    \/ \E i \in 1..MaxPending, inserted \in BOOLEAN : CreateSampleSpinsStep(i, inserted)
    \/ \E id \in 1..MaxResults, updated \in BOOLEAN : SoftDeleteSpinResult(id, updated)
    \/ \E id \in 1..MaxResults, updated \in BOOLEAN : RestoreSpinResult(id, updated)
    \/ \E id \in 1..MaxResults, updated \in BOOLEAN : PermanentlyDeleteSpinResult(id, updated)

SpecStore == InitStore /\ [][NextStore]_vars

\* C32: every persisted SpinResult, whichever path created it (the end of a
\* spin, the admin's enqueue, the sample-data endpoint), has its number in
\* 0..36 with the colour and parity of that number, and a soft delete or a
\* restore leaves number, colour and parity of every row as they were.
C32_RowsCarryDerivedColorAndParity ==
    /\ \A k \in 1..Len(spinResults) :
          LET r == spinResults[k]
          IN /\ r.number \in 0..36
             /\ r.color = getRouletteColor(r.number)
             /\ r.parity = getRouletteParity(r.number)
    /\ \A id \in 1..Len(spinResults), updated \in BOOLEAN :
          LET d == softDeleteSpinResult(Cur, id, updated).spinResults
              u == restoreSpinResult(Cur, id, updated).spinResults
          IN \A k \in 1..Len(spinResults) :
                /\ Len(d) = Len(spinResults) /\ Len(u) = Len(spinResults)
                /\ d[k].number = spinResults[k].number
                /\ d[k].color = spinResults[k].color
                /\ d[k].parity = spinResults[k].parity
                /\ u[k].number = spinResults[k].number
                /\ u[k].color = spinResults[k].color
                /\ u[k].parity = spinResults[k].parity

\* The sample row of 15 has been written and then soft-deleted.
C32_Witness ==
    /\ Len(spinResults) = 1
    /\ spinResults[1].number = 15
    /\ spinResults[1].is_deleted


\* C33: in every reachable state every element of the pending queue is an
\* integer in 0..36, and so is every number a suspended endRound still holds
\* to return to the queue.
C33_QueueHoldsValidNumbers ==
    /\ \A k \in 1..Len(spinQueue) : spinQueue[k] \in 0..36
    /\ \A i \in 1..Len(endRoundFrames) :
          \A k \in 1..Len(endRoundFrames[i].spins) :
              endRoundFrames[i].spins[k] \in 0..36

\* The queue is full of numbers the bot and the manual trigger accepted.
C33_Witness ==
    /\ Len(spinQueue) = MaxQueueLen
    /\ spinQueue[1] = 5
    /\ spinQueue[MaxQueueLen] = 0


StoreOutcomes == [1..(maxRetries + 1) -> BOOLEAN]

\* A faulty loop that tries once more after maxRetries failures (C35 must
\* reject it).
RECURSIVE storeSpinResultLoop_OneMore(_, _)
storeSpinResultLoop_OneMore(outcomes, attempts) ==
    IF attempts <= maxRetries
    THEN IF outcomes[attempts + 1] THEN [calls |-> attempts + 1, stored |-> TRUE]
         ELSE IF attempts + 1 > maxRetries
              THEN [calls |-> attempts + 1, stored |-> FALSE]
              ELSE storeSpinResultLoop_OneMore(outcomes, attempts + 1)
    ELSE [calls |-> attempts, stored |-> FALSE]

\* The while loop of storeSpinResult from `attempts` failed attempts on: the
\* number of calls made in all and whether the row was stored (otherwise the
\* method throws, the bot's returns null).
RECURSIVE storeSpinResultLoop(_, _)
storeSpinResultLoop(outcomes, attempts) ==
    IF attempts < maxRetries
    THEN IF outcomes[attempts + 1] THEN [calls |-> attempts + 1, stored |-> TRUE]
         ELSE IF attempts + 1 >= maxRetries
              THEN [calls |-> attempts + 1, stored |-> FALSE]
              ELSE storeSpinResultLoop(outcomes, attempts + 1)
    ELSE [calls |-> attempts, stored |-> FALSE]

\* C35: storing a spin result makes at most 3 attempts, stops at the first
\* success and after the third failed attempt reports failure, storing at
\* most one row; the audit write of endRound is attempted once and its
\* failure leaves endRound's state as it was.
C35_BoundedStoreRetries ==
    /\ \A outcomes \in StoreOutcomes :
          LET r == storeSpinResultLoop(outcomes, 0)
              fails == IF r.stored THEN r.calls - 1 ELSE maxRetries
          IN /\ r.calls \in 1..3
             /\ r.stored <=> \E k \in 1..3 : outcomes[k]
             /\ r.stored => /\ outcomes[r.calls]
                            /\ \A j \in 1..(r.calls - 1) : ~outcomes[j]
             /\ ~r.stored => r.calls = 3
             /\ \A i \in 1..Len(endSpinFrames) :
                   configured =>
                       Len(storeSpinResult(Cur, i, fails).spinResults)
                           = Len(spinResults) + (IF r.stored THEN 1 ELSE 0)
    /\ logSpinProcessing(Cur, FALSE) = Cur
    /\ configured => logSpinProcessing(Cur, TRUE).auditLog = Append(auditLog, "process_spin")

\* endSpin is suspended in storeSpinResult(5) with the store configured.
C35_Witness ==
    /\ configured
    /\ Len(endSpinFrames) = 1
    /\ endSpinFrames[1].spinNumber = 5
    /\ spinResults = <<>>


\* C36: in every reachable state, if isSpinning is true then the current
\* result number is set and lies in 0..36.
C36_SpinningHasResult ==
    isSpinning => (currentSpinIndex # None /\ currentSpinIndex[1] \in 0..36)


\* C37: endRound never drops a number it drained: while an endRound is
\* suspended with its head committed and nothing deleted, cleared or reset,
\* another endRound running in between does not keep the first, once it has
\* resumed, from having that head as the result of its spin and the rest of
\* what it drained back in the queue.
C37_DrainedNumbersAccountedFor ==
    Macrotask =>
        \A i \in 1..Len(endRoundFrames) :
            LET spins == endRoundFrames[i].spins
                after == endRoundResume(endRound(Cur), i)
            IN (roundActive /\ spinQueue = <<>>
                    /\ currentSpinIndex = Some(Head(spins))) =>
                   /\ after.isSpinning
                   /\ after.currentSpinIndex = Some(Head(spins))
                   /\ after.spinQueue = Tail(spins)


\* ------------------------------------------------------------------ liveness
\* The admin enqueues and the frontend polls; nothing is deleted, cleared,
\* reset or paused and the activity sweep never finds the frontend silent.
\* A pending timeout fires and an awaited store call returns.
NextLive ==
    \/ \E n \in SpinInputs \cup InvalidInputs, elapsed \in BOOLEAN : BotSpin(n, elapsed)
    \/ \E elapsed \in BOOLEAN : PollGameState(elapsed)
    \/ RoundTimerFires
    \/ \E i \in 1..MaxPending : EndRoundResume(i)
    \/ SpinTimerFires
    \/ \E i \in 1..MaxPending : EndSpinSkipStore(i)
    \/ \E i \in 1..MaxPending, fails \in 0..maxRetries : EndSpinResume(i, fails)

SpecLive ==
    /\ Init
    /\ [][NextLive]_vars
    /\ WF_vars(RoundTimerFires)
    /\ WF_vars(\E i \in 1..MaxPending : EndRoundResume(i))
    /\ WF_vars(SpinTimerFires)
    /\ WF_vars(\E i \in 1..MaxPending : EndSpinSkipStore(i))
    /\ WF_vars(\E i \in 1..MaxPending, fails \in 0..maxRetries : EndSpinResume(i, fails))
    /\ WF_vars(\E elapsed \in BOOLEAN : PollGameState(elapsed))

\* C38: a number the admin's enqueue has put into the queue is eventually the
\* result of a spin in progress, with timers firing and without any further
\* enqueue or manual trigger.
C38_EnqueuedEventuallyCommitted ==
    \A n \in SpinInputs :
        (\E k \in 1..Len(spinQueue) : spinQueue[k] = n)
            ~> (isSpinning /\ currentSpinIndex = Some(n))


\* C39: for every committed number n in 0..36, n = 0 included, the snapshot
\* taken while the spin of n is in progress reports n as its result number.
C39_SnapshotReportsResult ==
    (isSpinning /\ currentSpinIndex # None) =>
        Snapshot(Cur).spinIndex = currentSpinIndex


\* ------------------------------------------------ clearing the queue with rows
MaxRows == 3

\* markSpinsAsDeleted(spinNumber, count): the rows getLastSpinResults(50,
\* false) returns, newest first, that carry spinNumber, the first deletedCount
\* of them soft-deleted (a table of at most MaxRows rows is within the 50).
RECURSIVE markSpinsAsDeleted(_, _, _)
markSpinsAsDeleted(rows, spinNumber, count) ==
    LET matching == {k \in 1..Len(rows) :
                        ~rows[k].is_deleted /\ rows[k].number = spinNumber}
    IN IF count = 0 \/ matching = {} THEN rows
       ELSE LET k == CHOOSE j \in matching : \A m \in matching : m <= j
            IN markSpinsAsDeleted([rows EXCEPT ![k].is_deleted = TRUE],
                                  spinNumber, count - 1)

\* The loop of handleDeleteQueue over oldQueue from its element i on: for each
\* element, count = the occurrences of its number in oldQueue.
RECURSIVE markQueueAsDeleted(_, _, _)
markQueueAsDeleted(rows, oldQueue, i) ==
    IF i > Len(oldQueue) THEN rows
    ELSE markQueueAsDeleted(
             markSpinsAsDeleted(rows, oldQueue[i], Occurrences(oldQueue, oldQueue[i])),
             oldQueue, i + 1)

\* The /delete_queue handler of the bot that keeps the rows in step.
handleDeleteQueueMarked(s, admin) ==
    IF ~admin THEN s
    ELSE logAction([s EXCEPT !.spinResults =
                                 IF s.configured
                                 THEN markQueueAsDeleted(@, s.spinQueue, 1)
                                 ELSE @,
                             !.spinQueue = <<>>], "clear_queue")

BotDeleteQueueMarked ==
    /\ Macrotask
    /\ Len(auditLog) < MaxAudit
    /\ LET s == handleDeleteQueueMarked(Cur, TRUE)
       IN /\ spinQueue' = s.spinQueue
          /\ spinResults' = s.spinResults
          /\ auditLog' = s.auditLog
    /\ UNCHANGED <<game, configured, timers, frames, operationLock,
                   cachedLastSpinResult>>

\* Any queue of accepted numbers over any table of rows of such numbers, the
\* machine idle and paused so that the queue waits.
InitClear ==
    /\ currentState = "paused"
    /\ roundActive = FALSE
    /\ isSpinning = FALSE
    /\ currentRoundStartTime = "null"
    /\ currentSpinIndex = None
    /\ lastFrontendActivity = "null"
    /\ spinQueue \in UNION {[1..n -> SpinInputs] : n \in 0..MaxQueueLen}
    /\ configured = TRUE
    /\ spinResults \in UNION {[1..n -> {[number |-> v,
                                        color |-> getRouletteColor(v),
                                        parity |-> getRouletteParity(v),
                                        is_deleted |-> d] :
                                           v \in SpinInputs, d \in BOOLEAN}] :
                                 n \in 0..MaxRows}
    /\ roundTimers = 0
    /\ spinTimers = 0
    /\ endRoundFrames = <<>>
    /\ endSpinFrames = <<>>
    /\ addSpinFrames = <<>>
    /\ auditLog = <<>>
    /\ operationLock = FALSE
    /\ cachedLastSpinResult = None
    /\ sampleSpinFrames = <<>>

NextClear == BotDeleteQueueMarked

SpecClear == InitClear /\ [][NextClear]_vars

\* C40: clearing the queue soft-deletes, for each value v, at most as many
\* persisted results with number v as there were occurrences of v in the
\* cleared queue.
C40_ClearDeletesAtMostQueuedCount ==
    \A v \in SpinInputs :
        LET after == handleDeleteQueueMarked(Cur, TRUE).spinResults
            newly == {k \in 1..Len(spinResults) :
                         /\ spinResults[k].number = v
                         /\ ~spinResults[k].is_deleted
                         /\ after[k].is_deleted}
        IN Cardinality(newly) <= Occurrences(spinQueue, v)

=============================================================================
